---- MODULE Spec2Model ----
(***************************************************************************)
(* A model of the csv_parser crate (src/src/lib.rs): parse_value,          *)
(* get_value_field, handle_new_key, parse_header, parse_value_line and     *)
(* parse_csv.                                                              *)
(*                                                                         *)
(* A Rust string is modelled as a sequence of one-character strings, so    *)
(* that every scan over `chars()` in the source is a scan over a sequence. *)
(* Three specifications share the variables:                               *)
(*   Spec       a call of parse_csv(input, seperator)                      *)
(*   SpecValue  a call of parse_value(value)                               *)
(*   SpecLine   a call of parse_value_line(line, seperator, fields)        *)
(***************************************************************************)
EXTENDS Integers, Sequences, FiniteSets, TLC

VARIABLES pc, input, seperator, lines, fields, output, value, result, line, values

vars == <<pc, input, seperator, lines, fields, output, value, result, line, values>>

(***************************************************************************)
(* Bounds of the model.                                                    *)
(***************************************************************************)
\* longest enumerated input text of parse_csv
MaxInputLen == 5
\* longest enumerated argument of parse_value
MaxValueLen == 4
\* longest enumerated line given to parse_value_line
MaxLineLen == 4
\* longest header given to parse_value_line
MaxFields == 2

(***************************************************************************)
(* Characters and strings.                                                 *)
(***************************************************************************)
\* all sequences over S of length at most n
StringsUpTo(S, n) == UNION { [1..k -> S] : k \in 0..n }

\* the characters char::is_whitespace accepts, among those the model uses
White == {" ", "\t", "\n", "\r"}

DigitChars == <<"0", "1", "2", "3", "4", "5", "6", "7", "8", "9">>

IsDigit(ch) == \E d \in 1..10 : DigitChars[d] = ch

\* char::to_digit(10) of a decimal digit
DigitValue(ch) == (CHOOSE d \in 1..10 : DigitChars[d] = ch) - 1

\* u8::to_ascii_lowercase, for the letters the float grammar reads
ToLower(ch) ==
    CASE ch = "E" -> "e"
      [] ch = "I" -> "i"
      [] ch = "N" -> "n"
      [] ch = "F" -> "f"
      [] ch = "A" -> "a"
      [] ch = "T" -> "t"
      [] ch = "Y" -> "y"
      [] OTHER -> ch

LowerStr(s) == [i \in 1..Len(s) |-> ToLower(s[i])]

\* str::trim_start
RECURSIVE TrimStart(_)
TrimStart(s) ==
    IF s = <<>> THEN s
    ELSE IF Head(s) \in White THEN TrimStart(Tail(s)) ELSE s

\* str::trim_end
RECURSIVE TrimEnd(_)
TrimEnd(s) ==
    IF s = <<>> THEN s
    ELSE IF s[Len(s)] \in White THEN TrimEnd(SubSeq(s, 1, Len(s) - 1)) ELSE s

\* str::trim
Trim(s) == TrimEnd(TrimStart(s))

\* Display of a usize, as format!("{}") writes it
RECURSIVE ToDecimal(_)
ToDecimal(n) ==
    IF n < 10 THEN <<DigitChars[n + 1]>>
    ELSE ToDecimal(n \div 10) \o <<DigitChars[(n % 10) + 1]>>

(***************************************************************************)
(* str::parse::<i64>.  A magnitude is a sequence of decimal digit values    *)
(* without leading zeros (<<0>> is zero); the accumulator of the parser is  *)
(* kept in that form, and checked_mul / checked_add / checked_sub fail     *)
(* exactly when the new magnitude leaves the range of i64.                  *)
(***************************************************************************)
\* i64::MAX = 2^63 - 1
I64MaxMagnitude == <<9,2,2,3,3,7,2,0,3,6,8,5,4,7,7,5,8,0,7>>
\* -(i64::MIN) = 2^63
I64MinMagnitude == <<9,2,2,3,3,7,2,0,3,6,8,5,4,7,7,5,8,0,8>>

\* a <= b for magnitudes
MagLeq(a, b) ==
    \/ Len(a) < Len(b)
    \/ /\ Len(a) = Len(b)
       /\ \/ a = b
          \/ \E i \in 1..Len(a) :
                /\ a[i] < b[i]
                /\ \A j \in 1..(i - 1) : a[j] = b[j]

\* acc * 10 + d
MulTenAdd(acc, d) == IF acc = <<0>> THEN <<d>> ELSE Append(acc, d)

Err == [tag |-> "Err"]

\* a faulty FitsI64: the negative range is taken for both signs
FitsI64_Wide(neg, mag) == MagLeq(mag, I64MinMagnitude)

\* whether checked_mul and checked_add (checked_sub for a negative number) succeed
FitsI64(neg, mag) ==
    MagLeq(mag, IF neg THEN I64MinMagnitude ELSE I64MaxMagnitude)

\* a faulty AccumulateI64: the loop stops at the first non-digit and keeps the
\* number read so far
RECURSIVE AccumulateI64_Lenient(_, _, _)
AccumulateI64_Lenient(digits, neg, acc) ==
    IF digits = <<>> \/ ~IsDigit(Head(digits))
    THEN [tag |-> "Ok", neg |-> neg /\ acc # <<0>>, mag |-> acc]
    ELSE LET next == MulTenAdd(acc, DigitValue(Head(digits)))
         IN  IF FitsI64(neg, next)
             THEN AccumulateI64_Lenient(Tail(digits), neg, next)
             ELSE Err

\* the digit loop of from_str_radix: Err on a non-digit or on overflow
RECURSIVE AccumulateI64(_, _, _)
AccumulateI64(digits, neg, acc) ==
    IF digits = <<>> THEN [tag |-> "Ok", neg |-> neg /\ acc # <<0>>, mag |-> acc]
    ELSE IF ~IsDigit(Head(digits)) THEN Err
    ELSE LET next == MulTenAdd(acc, DigitValue(Head(digits)))
         IN  IF FitsI64(neg, next)
             THEN AccumulateI64(Tail(digits), neg, next)
             ELSE Err

\* trimmed_line.parse::<i64>()
parse_i64(src) ==
    IF src = <<>> THEN Err
    ELSE LET digits == IF Head(src) \in {"+", "-"} THEN Tail(src) ELSE src
         IN  IF digits = <<>> THEN Err
             ELSE AccumulateI64(digits, Head(src) = "-", <<0>>)

(***************************************************************************)
(* str::parse::<f64>.  The grammar is                                       *)
(*   Float  ::= Sign? ( 'inf' | 'infinity' | 'nan' | Number )              *)
(*   Number ::= ( Digit+ | Digit+ '.' Digit* | Digit* '.' Digit+ ) Exp?    *)
(*   Exp    ::= 'e' Sign? Digit+                                           *)
(* with the letters in either case.  The value kept is the decimal the      *)
(* parser read (sign, integral digits, fractional digits, exponent); the   *)
(* rounding to the nearest f64 is not modelled.                             *)
(***************************************************************************)
\* the number of leading decimal digits of s
DigitPrefixLen(s) ==
    CHOOSE k \in 0..Len(s) :
        /\ \A i \in 1..k : IsDigit(s[i])
        /\ (k = Len(s) \/ ~IsDigit(s[k + 1]))

Drop(s, k) == SubSeq(s, k + 1, Len(s))

InfNanWords == { <<"n","a","n">>, <<"i","n","f">>, <<"i","n","f","i","n","i","t","y">> }

\* parse_scientific: the text after the mantissa
ParseExponent(s) ==
    IF s = <<>> THEN [tag |-> "Ok", neg |-> FALSE, digits |-> <<>>]
    ELSE IF ToLower(Head(s)) # "e" THEN Err
    ELSE LET r == Tail(s)
             signed == r # <<>> /\ Head(r) \in {"+", "-"}
             d == IF signed THEN Tail(r) ELSE r
         IN  IF d # <<>> /\ DigitPrefixLen(d) = Len(d)
             THEN [tag |-> "Ok", neg |-> signed /\ Head(r) = "-", digits |-> d]
             ELSE Err

\* parse_number: integral digits, '.', fractional digits, exponent
ParseNumber(s) ==
    LET ni == DigitPrefixLen(s)
        afterInt == Drop(s, ni)
        hasDot == afterInt # <<>> /\ Head(afterInt) = "."
        fracSrc == IF hasDot THEN Tail(afterInt) ELSE afterInt
        nf == IF hasDot THEN DigitPrefixLen(fracSrc) ELSE 0
        e == ParseExponent(Drop(fracSrc, nf))
    IN  IF ni + nf = 0 \/ e.tag = "Err" THEN Err
        ELSE [tag |-> "Ok", class |-> "finite",
              int |-> SubSeq(s, 1, ni), frac |-> SubSeq(fracSrc, 1, nf),
              exp |-> [neg |-> e.neg, digits |-> e.digits]]

\* trimmed_line.parse::<f64>()
parse_f64(src) ==
    IF src = <<>> THEN Err
    ELSE LET neg == Head(src) = "-"
             s == IF Head(src) \in {"+", "-"} THEN Tail(src) ELSE src
             n == ParseNumber(s)
         IN  IF s = <<>> THEN Err
             ELSE IF n.tag = "Ok" THEN [tag |-> "Ok", neg |-> neg, num |-> n]
             ELSE IF LowerStr(s) \in InfNanWords
                  THEN [tag |-> "Ok", neg |-> neg,
                        num |-> [tag |-> "Ok", class |-> LowerStr(s)]]
             ELSE Err

(***************************************************************************)
(* CsvValue and parse_value.                                               *)
(***************************************************************************)
None == [tag |-> "None"]
Text(s) == [tag |-> "Text", text |-> s]
Integer(n) == [tag |-> "Integer", neg |-> n.neg, mag |-> n.mag]
Float(f) == [tag |-> "Float", neg |-> f.neg, num |-> f.num]

\* a faulty parse_value: the float attempt comes before the integer attempt
parse_value_FloatFirst(v) ==
    LET trimmed_line == Trim(v)
        integer == parse_i64(trimmed_line)
        maybe_float == parse_f64(trimmed_line)
    IN  IF trimmed_line = <<>> THEN None
        ELSE IF maybe_float.tag = "Ok" THEN Float(maybe_float)
        ELSE IF integer.tag = "Ok" THEN Integer(integer)
        ELSE Text(trimmed_line)

\* a faulty parse_value: the text kept is the untrimmed argument
parse_value_RawText(v) ==
    LET trimmed_line == Trim(v)
        integer == parse_i64(trimmed_line)
        maybe_float == parse_f64(trimmed_line)
    IN  IF trimmed_line = <<>> THEN None
        ELSE IF integer.tag = "Ok" THEN Integer(integer)
        ELSE IF maybe_float.tag = "Ok" THEN Float(maybe_float)
        ELSE Text(v)

parse_value(v) ==
    LET trimmed_line == Trim(v)
        integer == parse_i64(trimmed_line)
        maybe_float == parse_f64(trimmed_line)
    IN  IF trimmed_line = <<>> THEN None
        ELSE IF integer.tag = "Ok" THEN Integer(integer)
        ELSE IF maybe_float.tag = "Ok" THEN Float(maybe_float)
        ELSE Text(trimmed_line)

(***************************************************************************)
(* Field names: get_value_field and handle_new_key.                        *)
(***************************************************************************)
\* format!("__{}", n)
Synthetic(n) == <<"_", "_">> \o ToDecimal(n)

\* a faulty get_value_field: the synthetic name carries the 0-based index
get_value_field_ZeroBased(fs, index) ==
    IF index < Len(fs) THEN fs[index + 1] ELSE Synthetic(index)

\* fields.get(index) or "__{index + 1}"; index is 0-based
get_value_field(fs, index) ==
    IF index < Len(fs) THEN fs[index + 1] ELSE Synthetic(index + 1)

\* a faulty handle_new_key: the key is kept untrimmed
handle_new_key_Raw(key, len) ==
    IF Trim(key) = <<>> THEN Synthetic(len + 1) ELSE key

handle_new_key(key, len) ==
    LET trimmed_key == Trim(key)
    IN  IF trimmed_key = <<>> THEN Synthetic(len + 1) ELSE trimmed_key

(***************************************************************************)
(* str::lines: the text is cut after every "\n"; a line loses its "\n"     *)
(* and then a "\r" that stood before it.                                   *)
(***************************************************************************)
\* position of the first "\n" of s, 0 if there is none
FirstNewline(s) ==
    IF \E i \in 1..Len(s) : s[i] = "\n"
    THEN CHOOSE i \in 1..Len(s) : s[i] = "\n" /\ \A j \in 1..(i - 1) : s[j] # "\n"
    ELSE 0

StripLineEnding(l) ==
    IF l # <<>> /\ l[Len(l)] = "\n"
    THEN LET m == SubSeq(l, 1, Len(l) - 1)
         IN  IF m # <<>> /\ m[Len(m)] = "\r" THEN SubSeq(m, 1, Len(m) - 1) ELSE m
    ELSE l

RECURSIVE Lines(_)
Lines(s) ==
    IF s = <<>> THEN <<>>
    ELSE LET k == FirstNewline(s)
         IN  IF k = 0 THEN <<s>>
             ELSE <<StripLineEnding(SubSeq(s, 1, k))>> \o Lines(Drop(s, k))

(***************************************************************************)
(* parse_header.                                                           *)
(***************************************************************************)
Some(x) == [tag |-> "Some", val |-> x]

\* the loop over line.chars(): the keys pushed and the key being read
RECURSIVE HeaderChars(_, _, _, _)
HeaderChars(chars, sep, keys, current_key) ==
    IF chars = <<>> THEN [keys |-> keys, current_key |-> current_key]
    ELSE IF Head(chars) = sep
         THEN HeaderChars(Tail(chars), sep,
                          Append(keys, handle_new_key(current_key, Len(keys))), <<>>)
         ELSE HeaderChars(Tail(chars), sep, keys, Append(current_key, Head(chars)))

\* a faulty parse_header: the line after the header line is consumed too
RECURSIVE parse_header_Greedy(_, _)
parse_header_Greedy(ls, sep) ==
    IF ls = <<>> THEN [fields |-> None, lines |-> ls]
    ELSE LET scan == HeaderChars(Head(ls), sep, <<>>, <<>>)
         IN  IF scan.keys # <<>>
             THEN [fields |-> Some(Append(scan.keys,
                                   handle_new_key(scan.current_key, Len(scan.keys)))),
                   lines |-> IF Tail(ls) = <<>> THEN <<>> ELSE Tail(Tail(ls))]
             ELSE parse_header_Greedy(Tail(ls), sep)

\* the header and the lines left in the iterator
RECURSIVE parse_header(_, _)
parse_header(ls, sep) ==
    IF ls = <<>> THEN [fields |-> None, lines |-> ls]
    ELSE LET scan == HeaderChars(Head(ls), sep, <<>>, <<>>)
         IN  IF scan.keys # <<>>
             THEN [fields |-> Some(Append(scan.keys,
                                   handle_new_key(scan.current_key, Len(scan.keys)))),
                   lines |-> Tail(ls)]
             ELSE parse_header(Tail(ls), sep)

(***************************************************************************)
(* parse_value_line.  A HashMap<String, CsvValue> is a function from the   *)
(* set of its keys.                                                        *)
(***************************************************************************)
EmptyMap == [k \in {} |-> None]

\* HashMap::insert
Insert(m, k, v) == [x \in (DOMAIN m) \cup {k} |-> IF x = k THEN v ELSE m[x]]

\* a faulty InsertValue: an absent value removes the entry of its field
InsertValue_Remove(m, fs, index, current_value) ==
    LET v == parse_value(current_value)
        name == get_value_field(fs, index)
    IN  IF v.tag = "None" THEN [x \in (DOMAIN m) \ {name} |-> m[x]]
        ELSE Insert(m, name, v)

\* if let Some(value) = parse_value(..) { values.insert(get_value_field(..), value) }
InsertValue(m, fs, index, current_value) ==
    LET v == parse_value(current_value)
    IN  IF v.tag = "None" THEN m ELSE Insert(m, get_value_field(fs, index), v)

\* the loop over line.chars()
RECURSIVE ValueChars(_, _, _, _, _, _)
ValueChars(chars, sep, fs, vals, current_value, index) ==
    IF chars = <<>> THEN [values |-> vals, current_value |-> current_value, index |-> index]
    ELSE IF Head(chars) = sep
         THEN ValueChars(Tail(chars), sep, fs,
                         InsertValue(vals, fs, index, current_value), <<>>, index + 1)
         ELSE ValueChars(Tail(chars), sep, fs, vals,
                         Append(current_value, Head(chars)), index)

parse_value_line(l, sep, fs) ==
    LET scan == ValueChars(l, sep, fs, EmptyMap, <<>>, 0)
    IN  InsertValue(scan.values, fs, scan.index, scan.current_value)

(***************************************************************************)
(* The inputs the specifications draw from.                                *)
(***************************************************************************)
\* the digit characters of a magnitude
DigitsOf(mag) == [i \in 1..Len(mag) |-> DigitChars[mag[i] + 1]]

NoLines == <<>>

\* the characters of the enumerated input texts of parse_csv
CsvChars == {"a", "1", ",", "\t", " ", "\n"}

Seperators == {",", "\t"}

\* numbers next to and beyond the ends of the i64 range
BigNumbers ==
    { DigitsOf(I64MaxMagnitude), DigitsOf(I64MinMagnitude),
      <<"-">> \o DigitsOf(I64MinMagnitude),
      <<"-">> \o DigitsOf(<<9,2,2,3,3,7,2,0,3,6,8,5,4,7,7,5,8,0,9>>),
      DigitsOf(<<1,0,0,0,0,0,0,0,0,0,0,0,0,0,0,0,0,0,0,0>>),
      <<"0", "0">> \o DigitsOf(I64MinMagnitude) }

\* input texts with a cell that holds one of BigNumbers
BigInputs ==
    { <<"a", sep, "b", "\n">> \o n \o <<sep, "1", "\n", "1">> :
        sep \in Seperators, n \in BigNumbers }

\* longer texts: blank lines before the header and between the rows, cells
\* with whitespace around them, a row shorter and a row longer than the header
SampleInputs ==
    { <<"\n", "\n", " ", "a", " ", sep, "b", "\n", "1", sep, sep, "\n", "\n", " ", "\n",
        "m", "a", "d", "s", sep, "2", ".", "5", sep, "-", "1", "\n">> : sep \in Seperators }
    \cup
    { <<"a", "\n", sep, "b", "\n", "\n", "1", "\n", sep, "a", "\n">> : sep \in Seperators }

CsvInputs == StringsUpTo(CsvChars, MaxInputLen) \cup BigInputs \cup SampleInputs

\* the characters of the enumerated arguments of parse_value
ValueAlphabet == {"0", "1", "-", "+", ".", "e", " ", "n", "a"}

ValueProbes ==
    BigNumbers \cup
    { <<"i","n","f">>, <<"-","i","n","f">>, <<"I","n","f","i","n","i","t","y">>,
      <<"i","n","f","i","n","i","t","y">>, <<"N","a","N">>, <<"+","n","a","n">>,
      <<"1","E","+","1","0">>, <<" ","-","1",".","5","e","-","3","\t">>,
      <<"m","a","d","s">>, <<" ","w","a","s"," ">>, <<"i","n","f","o">> }

ValueInputs == StringsUpTo(ValueAlphabet, MaxValueLen) \cup ValueProbes

\* the characters of the enumerated lines of parse_value_line
LineChars == {"a", "1", ",", "\t"}

FieldNames == { <<"a">>, <<"b">>, Synthetic(2), Synthetic(3) }

LineInputs == StringsUpTo(LineChars, MaxLineLen)

FieldInputs == StringsUpTo(FieldNames, MaxFields)

(***************************************************************************)
(* Spec: parse_csv(input, seperator).                                      *)
(***************************************************************************)
Init ==
    /\ pc = "parse_csv"
    /\ input \in CsvInputs
    /\ seperator \in Seperators
    /\ lines = NoLines
    /\ fields = None
    /\ output = <<>>
    /\ value = <<>> /\ result = None /\ line = <<>> /\ values = EmptyMap

\* let mut lines = input.lines().enumerate(); parse_header(&mut lines, &seperator)
ParseCsvHeader ==
    /\ pc = "parse_csv"
    /\ LET h == parse_header(Lines(input), seperator)
       IN  /\ fields' = h.fields
           /\ lines' = h.lines
    /\ pc' = "header_returned"
    /\ UNCHANGED <<input, seperator, output, value, result, line, values>>

\* one turn of `for (_, line) in lines`
ParseCsvLine ==
    /\ pc \in {"header_returned", "for"}
    /\ fields.tag = "Some"
    /\ lines # <<>>
    /\ LET trimmed_line == Trim(Head(lines))
       IN  output' = IF trimmed_line # <<>>
                     THEN Append(output,
                                 parse_value_line(trimmed_line, seperator, fields.val))
                     ELSE output
    /\ lines' = Tail(lines)
    /\ pc' = "for"
    /\ UNCHANGED <<input, seperator, fields, value, result, line, values>>

\* no header, or the lines are exhausted: output is returned
ParseCsvReturn ==
    /\ pc \in {"header_returned", "for"}
    /\ fields.tag = "None" \/ lines = <<>>
    /\ pc' = "done"
    /\ UNCHANGED <<input, seperator, lines, fields, output, value, result, line, values>>

Next == ParseCsvHeader \/ ParseCsvLine \/ ParseCsvReturn

Spec == Init /\ [][Next]_vars

(***************************************************************************)
(* SpecValue: parse_value(value).                                          *)
(***************************************************************************)
InitValue ==
    /\ pc = "parse_value"
    /\ value \in ValueInputs
    /\ result = None
    /\ input = <<>> /\ seperator = "," /\ lines = NoLines /\ fields = None
    /\ output = <<>> /\ line = <<>> /\ values = EmptyMap

ParseValue ==
    /\ pc = "parse_value"
    /\ result' = parse_value(value)
    /\ pc' = "done"
    /\ UNCHANGED <<input, seperator, lines, fields, output, value, line, values>>

NextValue == ParseValue

SpecValue == InitValue /\ [][NextValue]_vars

(***************************************************************************)
(* SpecLine: parse_value_line(line, seperator, fields).                    *)
(***************************************************************************)
InitLine ==
    /\ pc = "parse_value_line"
    /\ line \in LineInputs
    /\ seperator \in Seperators
    /\ fields \in { Some(f) : f \in FieldInputs }
    /\ values = EmptyMap
    /\ input = <<>> /\ lines = NoLines /\ output = <<>> /\ value = <<>> /\ result = None

ParseValueLine ==
    /\ pc = "parse_value_line"
    /\ values' = parse_value_line(line, seperator, fields.val)
    /\ pc' = "done"
    /\ UNCHANGED <<input, seperator, lines, fields, output, value, result, line>>

NextLine == ParseValueLine

SpecLine == InitLine /\ [][NextLine]_vars

(***************************************************************************)
(* What the claims speak of, stated without the operators above.           *)
(***************************************************************************)
\* the positions of sep in l, and the k-th of them (0 before the first cell,
\* Len(l) + 1 after the last)
SepPositions(l, sep) == { i \in 1..Len(l) : l[i] = sep }

NthSep(l, sep, k) ==
    IF k = 0 THEN 0
    ELSE IF k > Cardinality(SepPositions(l, sep)) THEN Len(l) + 1
    ELSE CHOOSE i \in SepPositions(l, sep) :
            Cardinality({ j \in SepPositions(l, sep) : j <= i }) = k

\* l split on every occurrence of sep, empty cells kept
Cells(l, sep) ==
    [k \in 1..(Cardinality(SepPositions(l, sep)) + 1) |->
        SubSeq(l, NthSep(l, sep, k - 1) + 1, NthSep(l, sep, k) - 1)]

Blank(s) == \A i \in 1..Len(s) : s[i] \in White

\* s without its leading and trailing whitespace
Stripped(s) ==
    IF Blank(s) THEN <<>>
    ELSE LET a == CHOOSE i \in 1..Len(s) : s[i] \notin White /\ \A j \in 1..(i - 1) : s[j] \in White
             b == CHOOSE i \in 1..Len(s) : s[i] \notin White /\ \A j \in (i + 1)..Len(s) : s[j] \in White
         IN  SubSeq(s, a, b)

\* 10^k
RECURSIVE Pow10(_)
Pow10(k) == IF k = 0 THEN 1 ELSE 10 * Pow10(k - 1)

\* the name __{n} of the 1-based position n (n < 100)
SyntheticName(n) ==
    IF n < 10 THEN <<"_", "_", DigitChars[n + 1]>>
    ELSE <<"_", "_", DigitChars[(n \div 10) + 1], DigitChars[(n % 10) + 1]>>

\* the field name of the 0-based position i under the header hdr
PositionalName(hdr, i) == IF i + 1 <= Len(hdr) THEN hdr[i + 1] ELSE SyntheticName(i + 1)

\* the lines of the input, the first of them that holds the separator (0 if none
\* does: no header is returned), and the first that is not empty (0 if none)
AllLines == Lines(input)

HeaderLine ==
    IF \E i \in 1..Len(AllLines) : SepPositions(AllLines[i], seperator) # {}
    THEN CHOOSE i \in 1..Len(AllLines) :
            /\ SepPositions(AllLines[i], seperator) # {}
            /\ \A j \in 1..(i - 1) : SepPositions(AllLines[j], seperator) = {}
    ELSE 0

FirstNonEmptyLine ==
    IF \E i \in 1..Len(AllLines) : AllLines[i] # <<>>
    THEN CHOOSE i \in 1..Len(AllLines) :
            AllLines[i] # <<>> /\ \A j \in 1..(i - 1) : AllLines[j] = <<>>
    ELSE 0

\* the header entries of a header line
HeaderOf(l, sep) ==
    LET cells == Cells(l, sep)
    IN  [k \in 1..Len(cells) |->
            IF Blank(cells[k]) THEN SyntheticName(k) ELSE Stripped(cells[k])]

\* the lines between two positions that are not blank
NonBlankLines(from, to) == SelectSeq(SubSeq(AllLines, from, to), LAMBDA l : ~Blank(l))

\* the lines the loop of parse_csv has taken so far
Consumed == Len(AllLines) - Len(lines)

(***************************************************************************)
(* C1  Header selection: the header is built from the first line that is   *)
(* not empty, also when that line holds no separator (the header then has  *)
(* one field); no header is returned only if every line is empty.          *)
(* The code skips every line without a separator.                          *)
(***************************************************************************)
C1_HeaderFromFirstNonEmptyLine ==
    pc = "header_returned" =>
        IF FirstNonEmptyLine = 0 THEN fields = None
        ELSE /\ fields = Some(HeaderOf(AllLines[FirstNonEmptyLine], seperator))
             /\ SepPositions(AllLines[FirstNonEmptyLine], seperator) = {}
                    => Len(fields.val) = 1

(***************************************************************************)
(* C2  Rows correspond one-to-one and in order to the data lines: when     *)
(* parse_header has returned a header the cursor stands exactly after the  *)
(* header line, and the output holds, in order, the row of every line      *)
(* after the header line that is not blank after trimming, and nothing     *)
(* else.                                                                   *)
(***************************************************************************)
C2_RowsFollowDataLines ==
    /\ (pc = "header_returned" /\ fields.tag = "Some") =>
            /\ HeaderLine > 0
            /\ lines = SubSeq(AllLines, HeaderLine + 1, Len(AllLines))
    /\ (pc \in {"for", "done"} /\ fields.tag = "Some") =>
            LET data == NonBlankLines(HeaderLine + 1, Consumed)
            IN  /\ Len(output) = Len(data)
                /\ \A k \in 1..Len(data) :
                      output[k] = parse_value_line(Stripped(data[k]), seperator, fields.val)
    /\ (pc = "done" /\ fields.tag = "Some") => Consumed = Len(AllLines)
    /\ (pc = "done" /\ fields.tag = "None") => output = <<>>

C2_Witness ==
    /\ pc = "done"
    /\ HeaderLine > 1
    /\ Len(output) = 2
    /\ output[1] # output[2]
    /\ Len(AllLines) - HeaderLine > 2

(***************************************************************************)
(* C3  Column alignment does not depend on the separator: every non-blank  *)
(* cell of a data line is stored under the name of its own position in     *)
(* the line, also when the separator is a whitespace character and the     *)
(* line starts or ends with a blank cell.                                  *)
(* The code trims the line before it is split, so a leading tab is lost.   *)
(***************************************************************************)
C3_CellsKeepTheirColumn ==
    (pc = "done" /\ fields.tag = "Some") =>
        LET data == NonBlankLines(HeaderLine + 1, Len(AllLines))
        IN  /\ Len(output) = Len(data)
            /\ \A k \in 1..Len(data) :
                  LET cells == Cells(data[k], seperator)
                      full == { i \in 1..Len(cells) : ~Blank(cells[i]) }
                  IN  /\ DOMAIN output[k] = { PositionalName(fields.val, i - 1) : i \in full }
                      /\ \A i \in full :
                            (\A j \in full : j > i =>
                                PositionalName(fields.val, j - 1) # PositionalName(fields.val, i - 1))
                            => output[k][PositionalName(fields.val, i - 1)] = parse_value(cells[i])

(***************************************************************************)
(* C4  Row Scanner result: when the names of the positions of the tokens   *)
(* of a line are pairwise distinct, the keys of the mapping are exactly    *)
(* the names of the positions whose token is not blank, and the value at   *)
(* a name is the classification of the token of that position.             *)
(***************************************************************************)
LineCells == Cells(line, seperator)

NamesDistinct ==
    \A i, j \in 1..Len(LineCells) :
        i # j => PositionalName(fields.val, i - 1) # PositionalName(fields.val, j - 1)

C4_RowOfDistinctNames ==
    (pc = "done" /\ NamesDistinct) =>
        /\ DOMAIN values =
              { PositionalName(fields.val, i - 1) :
                    i \in { j \in 1..Len(LineCells) : ~Blank(LineCells[j]) } }
        /\ \A i \in 1..Len(LineCells) :
              ~Blank(LineCells[i]) =>
                  values[PositionalName(fields.val, i - 1)] = parse_value(LineCells[i])

C4_Witness ==
    /\ pc = "done"
    /\ NamesDistinct
    /\ Len(fields.val) = 2
    /\ Len(LineCells) = 3
    /\ Blank(LineCells[1])
    /\ Cardinality(DOMAIN values) = 2

(***************************************************************************)
(* C5  Header cell naming: the header has one entry per cell of the header *)
(* line, in order; the entry of the cell at 0-based position i is the      *)
(* trimmed text of the cell, or __{i+1} when the cell is blank.            *)
(***************************************************************************)
C5_HeaderCells ==
    (pc = "header_returned" /\ fields.tag = "Some") =>
        /\ HeaderLine > 0
        /\ fields.val = HeaderOf(AllLines[HeaderLine], seperator)

C5_Witness ==
    /\ pc = "header_returned"
    /\ fields.tag = "Some"
    /\ Len(fields.val) = 3
    /\ fields.val[1] = SyntheticName(1)
    /\ fields.val[2] = <<"a">>
    /\ Cells(AllLines[HeaderLine], seperator)[2] # <<"a">>
    /\ fields.val[3] = SyntheticName(3)

(***************************************************************************)
(* Integer-formatted strings: an optional '-' and one or more decimal      *)
(* digits, with optional whitespace around them.                           *)
(***************************************************************************)
AllDigits(s) == s # <<>> /\ \A i \in 1..Len(s) : IsDigit(s[i])

\* s without a leading character of signs
Unsigned(s, signs) == IF s # <<>> /\ s[1] \in signs THEN SubSeq(s, 2, Len(s)) ELSE s

IntegerFormatted(v) == AllDigits(Unsigned(Stripped(v), {"-"}))

\* the number a digit string denotes, as a magnitude
LeadingZeros(d) ==
    CHOOSE k \in 0..(Len(d) - 1) :
        /\ \A i \in 1..k : d[i] = "0"
        /\ (k = Len(d) - 1 \/ d[k + 1] # "0")

MagnitudeOf(d) == [i \in 1..(Len(d) - LeadingZeros(d)) |-> DigitValue(d[i + LeadingZeros(d)])]

\* a magnitude below 10^9 as a number
MagnitudeAsInt(m) ==
    LET term[i \in 0..Len(m)] == IF i = 0 THEN 0 ELSE term[i - 1] + m[i] * Pow10(Len(m) - i)
    IN  term[Len(m)]

\* a digit string of at most nine digits as a number
DigitsAsInt(d) ==
    LET acc[i \in 0..Len(d)] == IF i = 0 THEN 0 ELSE 10 * acc[i - 1] + DigitValue(d[i])
    IN  acc[Len(d)]

\* the integer an integer-formatted string denotes: its sign and its magnitude
Negative(v) == Stripped(v)[1] = "-" /\ MagnitudeOf(Unsigned(Stripped(v), {"-"})) # <<0>>

InI64Range(neg, m) == MagLeq(m, IF neg THEN I64MinMagnitude ELSE I64MaxMagnitude)

ExactInteger(v, r) ==
    LET d == Unsigned(Stripped(v), {"+", "-"})
    IN  /\ r.tag = "Integer"
        /\ r.mag = MagnitudeOf(d)
        /\ r.neg = (Stripped(v)[1] = "-" /\ r.mag # <<0>>)
        /\ Len(d) <= 9 => MagnitudeAsInt(r.mag) = DigitsAsInt(d)

(***************************************************************************)
(* C6 as stated: every integer-formatted string is classified Integer,     *)
(* with the exact value of the string.  It fails for a string whose value  *)
(* is outside the range of i64, which is classified Float.                 *)
(***************************************************************************)
C6_EveryIntegerString ==
    (pc = "done" /\ IntegerFormatted(value)) => ExactInteger(value, result)

(***************************************************************************)
(* C6  Integer classification is complete: every integer-formatted string  *)
(* whose value lies in the range of i64 is classified Integer, with the    *)
(* exact value of the string, and never Float or Text.                     *)
(***************************************************************************)
C6_IntegerStringsInRange ==
    (/\ pc = "done"
     /\ IntegerFormatted(value)
     /\ InI64Range(Negative(value), MagnitudeOf(Unsigned(Stripped(value), {"-"}))))
        => ExactInteger(value, result)

C6_Witness ==
    /\ pc = "done"
    /\ IntegerFormatted(value)
    /\ value # Stripped(value)
    /\ result.tag = "Integer"
    /\ result.neg
    /\ Len(result.mag) = 2

(***************************************************************************)
(* C7 as stated: Integer only for an optional '-' followed by digits; a    *)
(* string with a leading '+', a decimal point or an exponent is never      *)
(* Integer.  It fails for "+1", which is classified Integer.               *)
(***************************************************************************)
HasPointOrExponent(s) == \E i \in 1..Len(s) : s[i] \in {".", "e", "E"}

C7_IntegerOnlyMinusDigits ==
    pc = "done" =>
        /\ result.tag = "Integer" => AllDigits(Unsigned(Stripped(value), {"-"}))
        /\ (Stripped(value) # <<>> /\ Stripped(value)[1] = "+") => result.tag # "Integer"
        /\ HasPointOrExponent(Stripped(value)) => result.tag # "Integer"

(***************************************************************************)
(* C7  Integer classification is sound: Integer only for an optional '+'   *)
(* or '-' followed by digits only; a string with a decimal point or an     *)
(* exponent is never Integer.                                              *)
(***************************************************************************)
C7_IntegerOnlySignDigits ==
    pc = "done" =>
        /\ result.tag = "Integer" => AllDigits(Unsigned(Stripped(value), {"+", "-"}))
        /\ HasPointOrExponent(Stripped(value)) => result.tag # "Integer"

C7_Witness ==
    /\ pc = "done"
    /\ result.tag = "Integer"
    /\ Stripped(value)[1] = "+"

(***************************************************************************)
(* Numbers in integer or decimal/exponent notation: an optional sign, a    *)
(* mantissa of digits with at most one point and at least one digit, and   *)
(* an optional exponent: 'e' or 'E', an optional sign, digits.             *)
(***************************************************************************)
IsMantissa(m) ==
    /\ \A i \in 1..Len(m) : IsDigit(m[i]) \/ m[i] = "."
    /\ Cardinality({ i \in 1..Len(m) : m[i] = "." }) <= 1
    /\ \E i \in 1..Len(m) : IsDigit(m[i])

IsExponent(e) ==
    /\ e # <<>>
    /\ e[1] \in {"e", "E"}
    /\ AllDigits(Unsigned(SubSeq(e, 2, Len(e)), {"+", "-"}))

NumberNotation(t) ==
    LET body == Unsigned(t, {"+", "-"})
    IN  \E p \in 0..Len(body) :
            /\ IsMantissa(SubSeq(body, 1, p))
            /\ (p = Len(body) \/ IsExponent(SubSeq(body, p + 1, Len(body))))

\* inf, infinity or nan, in any case, with an optional sign
SpecialFloatWord(t) ==
    LET body == Unsigned(t, {"+", "-"})
    IN  \E w \in { <<"n","a","n">>, <<"i","n","f">>, <<"i","n","f","i","n","i","t","y">> } :
            /\ Len(body) = Len(w)
            /\ \A i \in 1..Len(w) :
                  body[i] = w[i] \/ <<body[i], w[i]>> \in
                      { <<"N","n">>, <<"A","a">>, <<"I","i">>, <<"F","f">>, <<"T","t">>, <<"Y","y">> }

(***************************************************************************)
(* C8 as stated: every non-blank string that is not a number in integer or *)
(* decimal/exponent notation is classified Text, holding the trimmed       *)
(* string.  It fails for the words nan, inf and infinity, which are Float. *)
(***************************************************************************)
C8_EveryNonNumberIsText ==
    (pc = "done" /\ ~Blank(value) /\ ~NumberNotation(Stripped(value)))
        => result = Text(Stripped(value))

(***************************************************************************)
(* C8  Text classification: every non-blank string that is neither a       *)
(* number in integer or decimal/exponent notation nor one of the words     *)
(* inf, infinity and nan (in any case, with an optional sign) is           *)
(* classified Text, holding exactly the trimmed string.                    *)
(***************************************************************************)
C8_NonNumbersAreText ==
    (/\ pc = "done"
     /\ ~Blank(value)
     /\ ~NumberNotation(Stripped(value))
     /\ ~SpecialFloatWord(Stripped(value)))
        => result = Text(Stripped(value))

C8_Witness ==
    /\ pc = "done"
    /\ result.tag = "Text"
    /\ Len(result.text) = 3
    /\ Len(value) = 5
    /\ \A i \in 1..3 : result.text[i] \notin {"0", "1", ".", "+", "-"}

(***************************************************************************)
(* C9  Integer overflow is absorbed: a cell that is a digit string (with   *)
(* an optional '-') whose value is outside the range of i64 is classified  *)
(* Float, never Integer, and the line that holds it still gives a row,     *)
(* which holds that Float under the name of the cell.                      *)
(***************************************************************************)
Overflows(c) ==
    /\ IntegerFormatted(c)
    /\ ~InI64Range(Negative(c), MagnitudeOf(Unsigned(Stripped(c), {"-"})))

C9_OverflowIsAbsorbed ==
    (pc = "done" /\ fields.tag = "Some") =>
        LET data == NonBlankLines(HeaderLine + 1, Len(AllLines))
        IN  /\ Len(output) = Len(data)
            /\ \A k \in 1..Len(data) :
                  LET cells == Cells(Stripped(data[k]), seperator)
                  IN  \A i \in 1..Len(cells) :
                        Overflows(cells[i]) =>
                            /\ parse_value(cells[i]).tag = "Float"
                            /\ (\A j \in (i + 1)..Len(cells) :
                                    PositionalName(fields.val, j - 1) # PositionalName(fields.val, i - 1))
                               => output[k][PositionalName(fields.val, i - 1)].tag = "Float"

C9_Witness ==
    /\ pc = "done"
    /\ Len(output) = 2
    /\ \E i \in 1..Len(Cells(AllLines[2], seperator)) :
          /\ Overflows(Cells(AllLines[2], seperator)[i])
          /\ Cells(AllLines[2], seperator)[i][1] = "-"
    /\ <<"a">> \in DOMAIN output[1]
    /\ output[1][<<"a">>].tag = "Float"

(***************************************************************************)
(* C10  Duplicate field names: when several positions of a line have the   *)
(* same field name, the mapping holds one entry for the name, with the     *)
(* classification of the token of the highest of those positions whose     *)
(* token is not blank; a blank token at a later position neither removes   *)
(* nor overwrites it.  A name with no non-blank token has no entry.        *)
(***************************************************************************)
PositionsOf(name) ==
    { i \in 1..Len(LineCells) :
        PositionalName(fields.val, i - 1) = name /\ ~Blank(LineCells[i]) }

Highest(P) == CHOOSE i \in P : \A j \in P : j <= i

C10_LastNonBlankWins ==
    pc = "done" =>
        /\ DOMAIN values =
              { PositionalName(fields.val, i - 1) :
                    i \in { j \in 1..Len(LineCells) : ~Blank(LineCells[j]) } }
        /\ \A name \in DOMAIN values :
              values[name] = parse_value(LineCells[Highest(PositionsOf(name))])

C10_Witness ==
    /\ pc = "done"
    /\ \E i, j, k \in 1..Len(LineCells) :
          /\ i < j /\ j < k
          /\ PositionalName(fields.val, i - 1) = PositionalName(fields.val, j - 1)
          /\ PositionalName(fields.val, k - 1) = PositionalName(fields.val, j - 1)
          /\ k > Len(fields.val)
          /\ ~Blank(LineCells[i])
          /\ ~Blank(LineCells[j])
          /\ Blank(LineCells[k])
          /\ parse_value(LineCells[i]) # parse_value(LineCells[j])
          /\ values[PositionalName(fields.val, j - 1)] = parse_value(LineCells[j])

====
